---- MODULE Spec2Model ----
(***************************************************************************)
(* Model of witrn-ui-bokeh.py: the connection lifecycle (main_method and   *)
(* the connection buttons), the bokeh document's next-tick callback queue, *)
(* and the packet handler with its three rate gates and the rolling plot   *)
(* window.                                                                 *)
(*                                                                         *)
(* Three contexts run concurrently:                                        *)
(*   - the supervisor thread (main_method), one step per statement that    *)
(*     touches shared state, its position held in pc;                      *)
(*   - the UI loop (bokeh/tornado), which runs one next-tick callback or   *)
(*     one widget event handler at a time, each atomically;                *)
(*   - the device thread, which calls on_packet and on_error.              *)
(***************************************************************************)
EXTENDS Integers, Sequences, FiniteSets, TLC

VARIABLES
    main_state,        \* state.STOPPED / INITIALIZING / RUNNING / STOPPING
    pc,                \* position of main_method in its while-loop body
    meter,             \* what has been done to the USBMeter handle
    error_string,      \* main_method's local error_string (read late by a lambda)
    doc_callbacks,     \* doc.add_next_tick_callback queue, FIFO
    status_label,      \* status_label.text
    disabled,          \* widget name -> its .disabled property
    measurement_label, \* measurement_label.text
    data_source,       \* data_source.data: five columns
    logging, log_period_ms, plot_period_ms, invert_current,
    csv_file,          \* name of the file on_packet appends rows to
    csv_rows,          \* every row written so far, with the file it went to
    last_meas_time, last_plot_time, last_log_time,
    now,               \* the wall clock read by datetime.now(), in ms
    \* history variables (observers; no action's guard reads them)
    last_write,        \* the latest assignment to main_state: who, from, to
    attempt,           \* the latest open request: its outcome, the enables submitted since
    sample,            \* the packet on_packet has just handled: dropped, or processed
                       \* and what the gates did; forgotten when the clock or a
                       \* setting moves on
    appended           \* the points streamed into data_source since the last clear

vars == <<main_state, pc, meter, error_string, doc_callbacks, status_label,
          disabled, measurement_label, data_source, logging, log_period_ms,
          plot_period_ms, invert_current, last_meas_time, last_plot_time,
          last_log_time, now, last_write, attempt, sample, appended, csv_file,
          csv_rows>>

state_vars == <<main_state, last_write>>
thread_vars == <<pc, meter, error_string>>
widget_vars == <<status_label, disabled, measurement_label>>
plot_vars == <<data_source, appended>>
config_vars == <<logging, log_period_ms, plot_period_ms, invert_current, csv_file>>
gate_vars == <<last_meas_time, last_plot_time, last_log_time, csv_rows>>

----------------------------------------------------------------------------
(* Bounds of the model *)

\* The clock runs from 0 to MaxTicks * 100 ms in steps of 100 ms.
MaxTicks == 3

\* Default periods (program constants)
DefaultLogPeriod == 250
DefaultPlotPeriod == 0

\* Rollover of data_source.stream. The program uses 6000 (line 50); the model
\* keeps the same code with a small capacity so that eviction happens within
\* MaxTicks.
MAX_X_POINTS == 2

\* The scenario of one sample every 100 ms runs its own clock for
\* ScenarioTicks steps (0, 100, ..., 400 ms).
ScenarioTicks == 4

Times == {100 * k : k \in 0..MaxTicks}

\* Values a NumericInput can be set to (periods are >= 0 ms)
PeriodInputs == {0, 100, 250}

\* Packets: the command tag and, for DAT_RECV, the measurement
Voltages == {5}
Currents == {2}
Commands == {"DAT_RECV", "OTHER"}
Packets == [command : Commands, voltage : Voltages, current : Currents, recGrp : {0}]

\* plot_title (line 37); title_input is left alone
plot_title == "Witrn"

\* Exceptions USBMeter()/connect() can raise: <<type(e).__name__, str(e)>>
ConnectExceptions == {<<"OSError", "open failed">>, <<"KeyError", "C9">>}
\* Errors the device reports through the error callback: str(error)
AcquisitionErrors == {"read failed"}

----------------------------------------------------------------------------
(* Values *)

STOPPED == "STOPPED"
INITIALIZING == "INITIALIZING"
RUNNING == "RUNNING"
STOPPING == "STOPPING"
state == {STOPPED, INITIALIZING, RUNNING, STOPPING}

\* Python's None / a datetime t are <<>> / <<t>>
None == <<>>
Some(t) == <<t>>

\* type(e).__name__ + ": " + str(e); text is a tuple of its pieces, "" is <<>>
ErrorString(e) == <<e[1], ": ", e[2]>>
Str(msg) == <<msg>>
EmptyText == <<>>

ConnWidgets == {"device_select", "open_conn_button", "invert_sign_switch"}
Widgets == ConnWidgets \cup {"close_conn_button", "title_input", "log_period_input",
                             "start_log_button", "stop_log_button", "clear_plot_button"}

EmptyData == [DateTime |-> <<>>, DateTimeStr |-> <<>>, voltage |-> <<>>,
              current |-> <<>>, power |-> <<>>]

\* widget.update(disabled=d) for every widget in ws
SetDisabled(dis, ws, d) == [w \in Widgets |-> IF w \in ws THEN d ELSE dis[w]]

\* one assignment to main_state, recorded
Write(by, to) ==
    /\ main_state' = to
    /\ last_write' = [by |-> by, from |-> main_state, to |-> to]

\* doc.add_next_tick_callback(task)
Submit(task) == doc_callbacks' = Append(doc_callbacks, task)

EnableTask(w) == [kind |-> "enable", widget |-> w]
StatusTask(text) == [kind |-> "status", text |-> text]
\* lambda: status_label.update(text=error_string): reads error_string when it runs
ErrorStringTask == [kind |-> "status_error_string"]

\* sample before any packet has been handled
NoGates == [plot |-> FALSE, log |-> FALSE, meas |-> FALSE]
NoSample == [processed |-> FALSE, dropped |-> FALSE, command |-> "", t |-> 0,
             before |-> [plot |-> None, log |-> None, meas |-> None],
             logging |-> FALSE, log_period_ms |-> 0, plot_period_ms |-> 0,
             fired |-> NoGates]

----------------------------------------------------------------------------
Init ==
    /\ main_state = STOPPED
    /\ pc = "loop"
    /\ meter = "none"
    /\ error_string = EmptyText
    /\ doc_callbacks = <<>>
    /\ status_label = EmptyText
    /\ disabled = [w \in Widgets |-> w \in {"close_conn_button", "stop_log_button"}]
    /\ measurement_label = EmptyText
    /\ data_source = EmptyData
    /\ logging = FALSE
    /\ log_period_ms = DefaultLogPeriod
    /\ plot_period_ms = DefaultPlotPeriod
    /\ invert_current = TRUE
    /\ csv_file = EmptyText
    /\ csv_rows = <<>>
    /\ last_meas_time = None
    /\ last_plot_time = None
    /\ last_log_time = None
    /\ now = 0
    /\ last_write = [by |-> "module", from |-> STOPPED, to |-> STOPPED]
    /\ attempt = [outcome |-> "none", enables |-> [w \in ConnWidgets |-> 0]]
    /\ sample = NoSample
    /\ appended = <<>>

----------------------------------------------------------------------------
(* The supervisor thread: main_method, lines 268-315 *)

\* what no step of main_method touches
ui_and_data_vars == <<widget_vars, plot_vars, config_vars, gate_vars, now>>

\* line 272 / 302: time.sleep while STOPPED or RUNNING
main_method_sleep ==
    /\ pc = "loop"
    /\ main_state \in {STOPPED, RUNNING}
    /\ UNCHANGED vars

\* line 275 / 305: the elif that selects the branch for the state just read
main_method_dispatch ==
    /\ pc = "loop"
    /\ main_state \in {INITIALIZING, STOPPING}
    /\ pc' = IF main_state = INITIALIZING THEN "connect" ELSE "stop_read"
    /\ UNCHANGED <<state_vars, meter, error_string, doc_callbacks, attempt,
                   ui_and_data_vars>>
    /\ UNCHANGED sample

\* lines 277-283: USBMeter(...) or connect() raises e. A constructor that raises
\* leaves the global meter as it was; a connect() that raises leaves the new,
\* unconnected object in it.
main_method_connect_raises ==
    /\ pc = "connect"
    /\ \E e \in ConnectExceptions :
          /\ error_string' = ErrorString(e)
          /\ meter' = IF e[1] = "KeyError" THEN meter ELSE "unconnected"
    /\ attempt' = [attempt EXCEPT !.outcome = "failed"]
    /\ pc' = "fail_status"
    /\ UNCHANGED <<state_vars, doc_callbacks, ui_and_data_vars>>
    /\ UNCHANGED sample

\* lines 277-280: USBMeter(...), recv_callback, error_callback, connect() return
main_method_connect_returns ==
    /\ pc = "connect"
    /\ meter' = "connected"
    /\ attempt' = [attempt EXCEPT !.outcome = "connected"]
    /\ pc' = "read_status"
    /\ UNCHANGED <<state_vars, error_string, doc_callbacks, ui_and_data_vars>>
    /\ UNCHANGED sample

\* SubmitAt with the open button's re-enable on the failure path left out
SubmitAt_NoOpenEnable ==
    [fail_status   |-> [task |-> ErrorStringTask,                  next |-> "fail_select"],
     fail_select   |-> [task |-> EnableTask("device_select"),      next |-> "fail_switch"],
     fail_switch   |-> [task |-> EnableTask("invert_sign_switch"), next |-> "fail_state"],
     clear_status  |-> [task |-> StatusTask(EmptyText),            next |-> "enable_close"],
     enable_close  |-> [task |-> EnableTask("close_conn_button"),  next |-> "start_read"],
     stop_select   |-> [task |-> EnableTask("device_select"),      next |-> "stop_open"],
     stop_open     |-> [task |-> EnableTask("open_conn_button"),   next |-> "stop_switch"],
     stop_switch   |-> [task |-> EnableTask("invert_sign_switch"), next |-> "stop_state"]]

\* the callback each add_next_tick_callback statement of main_method submits,
\* and the statement that follows it
SubmitAt ==
    [fail_status   |-> [task |-> ErrorStringTask,                  next |-> "fail_select"],
     fail_select   |-> [task |-> EnableTask("device_select"),      next |-> "fail_open"],
     fail_open     |-> [task |-> EnableTask("open_conn_button"),   next |-> "fail_switch"],
     fail_switch   |-> [task |-> EnableTask("invert_sign_switch"), next |-> "fail_state"],
     clear_status  |-> [task |-> StatusTask(EmptyText),            next |-> "enable_close"],
     enable_close  |-> [task |-> EnableTask("close_conn_button"),  next |-> "start_read"],
     stop_select   |-> [task |-> EnableTask("device_select"),      next |-> "stop_open"],
     stop_open     |-> [task |-> EnableTask("open_conn_button"),   next |-> "stop_switch"],
     stop_switch   |-> [task |-> EnableTask("invert_sign_switch"), next |-> "stop_state"]]

\* lines 285-288, 295-296, 310-312: one doc.add_next_tick_callback(...) statement
main_method_submit ==
    /\ pc \in DOMAIN SubmitAt
    /\ Submit(SubmitAt[pc].task)
    /\ attempt' = LET task == SubmitAt[pc].task IN
                  IF task.kind = "enable" /\ task.widget \in ConnWidgets
                  THEN [attempt EXCEPT !.enables[task.widget] = @ + 1]
                  ELSE attempt
    /\ pc' = SubmitAt[pc].next
    /\ UNCHANGED <<state_vars, meter, error_string, ui_and_data_vars>>
    /\ UNCHANGED sample

\* line 291-292: main_state = state.STOPPED; continue
main_method_fail_state ==
    /\ pc = "fail_state"
    /\ Write("main_method", STOPPED)
    /\ pc' = "loop"
    /\ UNCHANGED <<meter, error_string, doc_callbacks, attempt, ui_and_data_vars>>
    /\ UNCHANGED sample

\* line 294: if status_label.text != "" (a read of the UI's widget)
main_method_read_status ==
    /\ pc = "read_status"
    /\ pc' = IF status_label # EmptyText THEN "clear_status" ELSE "enable_close"
    /\ UNCHANGED <<state_vars, meter, error_string, doc_callbacks, attempt,
                   ui_and_data_vars>>
    /\ UNCHANGED sample

\* line 298: meter.start_read()
main_method_start_read ==
    /\ pc = "start_read"
    /\ meter' = IF meter = "connected" THEN "reading" ELSE meter
    /\ pc' = "run_state"
    /\ UNCHANGED <<state_vars, error_string, doc_callbacks, attempt, ui_and_data_vars>>
    /\ UNCHANGED sample

\* line 300: main_state = state.RUNNING
main_method_run_state ==
    /\ pc = "run_state"
    /\ Write("main_method", RUNNING)
    /\ pc' = "loop"
    /\ UNCHANGED <<meter, error_string, doc_callbacks, attempt, ui_and_data_vars>>
    /\ UNCHANGED sample

\* lines 306-307: meter.stop_read(); time.sleep(0.1)
main_method_stop_read ==
    /\ pc = "stop_read"
    /\ meter' = IF meter = "reading" THEN "stopped" ELSE meter
    /\ pc' = "disconnect"
    /\ UNCHANGED <<state_vars, error_string, doc_callbacks, attempt, ui_and_data_vars>>
    /\ UNCHANGED sample

\* a stop path that would leave the device connected
main_method_disconnect_Skipped ==
    /\ pc = "disconnect"
    /\ pc' = "stop_select"
    /\ UNCHANGED <<state_vars, meter, error_string, doc_callbacks, attempt,
                   ui_and_data_vars>>
    /\ UNCHANGED sample

\* line 308: meter.disconnect()
main_method_disconnect ==
    /\ pc = "disconnect"
    /\ meter' = IF meter \in {"connected", "reading", "stopped"} THEN "disconnected"
                ELSE meter
    /\ pc' = "stop_select"
    /\ UNCHANGED <<state_vars, error_string, doc_callbacks, attempt, ui_and_data_vars>>
    /\ UNCHANGED sample

\* line 315: main_state = state.STOPPED
main_method_stop_state ==
    /\ pc = "stop_state"
    /\ Write("main_method", STOPPED)
    /\ pc' = "loop"
    /\ UNCHANGED <<meter, error_string, doc_callbacks, attempt, ui_and_data_vars>>
    /\ UNCHANGED sample

main_method ==
    \/ main_method_sleep
    \/ main_method_dispatch
    \/ main_method_connect_raises
    \/ main_method_connect_returns
    \/ main_method_submit
    \/ main_method_fail_state
    \/ main_method_read_status
    \/ main_method_start_read
    \/ main_method_run_state
    \/ main_method_stop_read
    \/ main_method_disconnect
    \/ main_method_stop_state

----------------------------------------------------------------------------
(* The rolling window: data_source *)

Columns == {"DateTime", "DateTimeStr", "voltage", "current", "power"}

\* a rollover that would keep the oldest MAX_X_POINTS entries instead
Rollover_KeepOldest(col) ==
    IF Len(col) > MAX_X_POINTS THEN SubSeq(col, 1, MAX_X_POINTS) ELSE col

\* rollover=MAX_X_POINTS of ColumnDataSource.stream: keep the last MAX_X_POINTS
Rollover(col) ==
    IF Len(col) > MAX_X_POINTS
    THEN SubSeq(col, Len(col) - MAX_X_POINTS + 1, Len(col))
    ELSE col

\* a stream that would leave the power column without rollover
update_PowerNotRolled(data, point) ==
    [c \in Columns |-> IF c = "power" THEN Append(data[c], point[c])
                       ELSE Rollover(Append(data[c], point[c]))]

\* lines 260-265: data_source.stream({...one value per column...}, rollover)
update(data, point) == [c \in Columns |-> Rollover(Append(data[c], point[c]))]

\* lines 392-397: data_source.data = {five empty columns}
on_clear_plot_button ==
    /\ data_source' = EmptyData
    /\ appended' = <<>>

----------------------------------------------------------------------------
(* The UI loop: next-tick callbacks and widget event handlers, one at a time *)

\* the document runs the oldest next-tick callback
RunCallback ==
    /\ doc_callbacks # <<>>
    /\ LET task == Head(doc_callbacks) IN
       /\ doc_callbacks' = Tail(doc_callbacks)
       /\ status_label' =
             CASE task.kind = "status" -> task.text
               [] task.kind = "status_error_string" -> error_string
               [] OTHER -> status_label
       /\ disabled' =
             IF task.kind = "enable" THEN SetDisabled(disabled, {task.widget}, FALSE)
             ELSE disabled
       /\ measurement_label' =
             IF task.kind = "meas" THEN task.text ELSE measurement_label
       /\ data_source' =
             IF task.kind = "update" THEN update(data_source, task.point)
             ELSE data_source
       /\ appended' =
             IF task.kind = "update" THEN Append(appended, task.point) ELSE appended
    /\ UNCHANGED <<state_vars, thread_vars, attempt, config_vars, gate_vars, now>>
    /\ UNCHANGED sample

\* an open request that would also forget the gates' timestamps
on_open_conn_button_ResetsGates ==
    /\ disabled' = SetDisabled(disabled, ConnWidgets, TRUE)
    /\ on_clear_plot_button
    /\ Write("on_open_conn_button", INITIALIZING)
    /\ attempt' = [outcome |-> "pending", enables |-> [w \in ConnWidgets |-> 0]]
    /\ last_plot_time' = None
    /\ last_log_time' = None
    /\ last_meas_time' = None
    /\ UNCHANGED <<thread_vars, doc_callbacks, status_label, measurement_label,
                   config_vars, csv_rows, now>>
    /\ UNCHANGED sample

\* lines 324-332
on_open_conn_button ==
    /\ disabled' = SetDisabled(disabled, ConnWidgets, TRUE)
    /\ on_clear_plot_button
    /\ Write("on_open_conn_button", INITIALIZING)
    /\ attempt' = [outcome |-> "pending", enables |-> [w \in ConnWidgets |-> 0]]
    /\ UNCHANGED <<thread_vars, doc_callbacks, status_label, measurement_label,
                   config_vars, gate_vars, now>>
    /\ UNCHANGED sample

\* lines 335-339
on_close_conn_button ==
    /\ disabled' = SetDisabled(disabled, {"close_conn_button"}, TRUE)
    /\ Write("on_close_conn_button", STOPPING)
    /\ UNCHANGED <<thread_vars, doc_callbacks, status_label, measurement_label,
                   plot_vars, attempt, config_vars, gate_vars, now>>
    /\ UNCHANGED sample

\* a click reaches its handler only from a button the page shows enabled
ClickOpen == ~disabled["open_conn_button"] /\ on_open_conn_button
ClickClose == ~disabled["close_conn_button"] /\ on_close_conn_button

----------------------------------------------------------------------------
(* The device thread *)

\* the handle has callbacks registered and is connected
DeviceLive == meter \in {"connected", "reading", "stopped"}

\* lines 252-257: the device reports an error, once per failure
on_error ==
    /\ DeviceLive
    /\ \E error \in AcquisitionErrors : Submit(StatusTask(Str(error)))
    /\ Write("on_error", STOPPED)
    /\ meter' = "failed"
    /\ UNCHANGED <<pc, error_string, widget_vars, plot_vars, attempt, config_vars,
                   gate_vars, now>>
    /\ UNCHANGED sample

\* the packet reader runs between start_read() and stop_read()
DeviceReading == meter = "reading"

\* datetime_now.strftime('%H:%M:%S.%f')[:-3]: time of day, cut to milliseconds
TimeStr(t) == <<(t \div 1000) % 86400, t % 1000>>

\* lines 192-197: if last_x_time == None: last_x_time = datetime_now
GateInit(last, t) == IF last = None THEN Some(t) ELSE last

\* a comparison that would also fire at a gap equal to the period
Elapsed_NonStrict(t, last, period) == t - last[1] >= period

\* lines 210, 220, 230: (datetime_now - last_x_time) > timedelta(milliseconds=period)
Elapsed(t, last, period) == t - last[1] > period

\* a gate that would not record its firing time
GateStamp_Never(fires, t, last) == last

\* lines 218, 228, 249: last_x_time = datetime_now, inside the gate's if
GateStamp(fires, t, last) == IF fires THEN Some(t) ELSE last

\* a transform that would invert the current whatever the switch says
SignedCurrent_AlwaysInverted(current) == -current

\* lines 203-206
SignedCurrent(current) == IF invert_current THEN -current ELSE current

\* a row that would carry the device's 0-based group index
CsvRow_ZeroBasedGroup(t, packet, current, power) ==
    [DateTime |-> t, voltage |-> packet.voltage, current |-> current,
     power |-> power, recGrp |-> packet.recGrp]

\* lines 213-217: the row written to the csv file
CsvRow(t, packet, current, power) ==
    [DateTime |-> t, voltage |-> packet.voltage, current |-> current,
     power |-> power, recGrp |-> packet.recGrp + 1]

\* lines 222-227: the arguments bound into partial(update, ...)
Point(t, packet, current, power) ==
    [DateTime |-> t, DateTimeStr |-> TimeStr(t), voltage |-> packet.voltage,
     current |-> current, power |-> power]

\* lines 231-247: the text of the measurement label
MeasText(t, packet, current, power) ==
    <<packet.voltage, current, power, TimeStr(t), packet.recGrp + 1>>

\* a drop that would look at the command tag only
Dropped_TagOnly(packet) == packet.command # "DAT_RECV"

\* lines 184-187: the two early returns
Dropped(packet) == main_state # RUNNING \/ packet.command # "DAT_RECV"

\* lines 181-249
on_packet(packet) ==
    /\ DeviceReading
    /\ IF Dropped(packet)
       THEN /\ sample' = [NoSample EXCEPT !.dropped = TRUE, !.command = packet.command]
            /\ UNCHANGED <<state_vars, thread_vars, doc_callbacks, widget_vars,
                           plot_vars, attempt, config_vars, gate_vars, now>>
       ELSE
         LET t == now
             meas0 == GateInit(last_meas_time, t)
             log0  == GateInit(last_log_time, t)
             plot0 == GateInit(last_plot_time, t)
             current == SignedCurrent(packet.current)
             power == packet.voltage * current
             log_fires  == logging /\ Elapsed(t, log0, log_period_ms)
             plot_fires == Elapsed(t, plot0, plot_period_ms)
             meas_fires == Elapsed(t, meas0, log_period_ms)
             plot_task == [kind |-> "update", point |-> Point(t, packet, current, power)]
             meas_task == [kind |-> "meas", text |-> MeasText(t, packet, current, power)]
         IN
         /\ csv_rows' = IF log_fires
                        THEN Append(csv_rows, [file |-> csv_file,
                                               row |-> CsvRow(t, packet, current, power)])
                        ELSE csv_rows
         /\ last_log_time' = GateStamp(log_fires, t, log0)
         /\ last_plot_time' = GateStamp(plot_fires, t, plot0)
         /\ last_meas_time' = GateStamp(meas_fires, t, meas0)
         /\ doc_callbacks' = doc_callbacks
                               \o (IF plot_fires THEN <<plot_task>> ELSE <<>>)
                               \o (IF meas_fires THEN <<meas_task>> ELSE <<>>)
         /\ sample' = [processed |-> TRUE, dropped |-> FALSE,
                       command |-> packet.command, t |-> t,
                       before |-> [plot |-> last_plot_time, log |-> last_log_time,
                                   meas |-> last_meas_time],
                       logging |-> logging, log_period_ms |-> log_period_ms,
                       plot_period_ms |-> plot_period_ms,
                       fired |-> [plot |-> plot_fires, log |-> log_fires,
                                  meas |-> meas_fires]]
         /\ UNCHANGED <<state_vars, thread_vars, widget_vars, plot_vars, attempt,
                        config_vars, now>>

\* the device delivers some packet
DeliverPacket == \E packet \in Packets : on_packet(packet)

\* the wall clock advances by 100 ms, up to limit
TickTo(limit) ==
    /\ now + 100 <= limit
    /\ now' = now + 100
    /\ sample' = NoSample
    /\ UNCHANGED <<state_vars, thread_vars, doc_callbacks, widget_vars, plot_vars,
                   attempt, config_vars, gate_vars>>

Tick == TickTo(100 * MaxTicks)

----------------------------------------------------------------------------
(* Widget event handlers for the plot and the log, run by the UI loop *)

\* lines 342-345
on_invert_sign_switch(new) ==
    /\ invert_current' = new
    /\ UNCHANGED <<state_vars, thread_vars, doc_callbacks, widget_vars, plot_vars,
                   attempt, logging, log_period_ms, plot_period_ms, csv_file,
                   gate_vars, now>>
    /\ sample' = NoSample

\* lines 356-359
on_log_period_input(new) ==
    /\ log_period_ms' = new
    /\ UNCHANGED <<state_vars, thread_vars, doc_callbacks, widget_vars, plot_vars,
                   attempt, logging, plot_period_ms, invert_current, csv_file,
                   gate_vars, now>>
    /\ sample' = NoSample

\* lines 386-389
on_plot_period_input(new) ==
    /\ plot_period_ms' = new
    /\ UNCHANGED <<state_vars, thread_vars, doc_callbacks, widget_vars, plot_vars,
                   attempt, logging, log_period_ms, invert_current, csv_file,
                   gate_vars, now>>
    /\ sample' = NoSample

\* strftime('%Y-%m-%d_%H-%M-%S') + "_" + plot_title.replace(' ', '-') + ".csv":
\* the clock cut to whole seconds, and the title
CsvName(t, title) == <<t \div 1000, "_", title, ".csv">>

LogWidgets == {"title_input", "log_period_input", "start_log_button", "clear_plot_button"}

\* lines 362-372
on_start_log_button ==
    /\ disabled' = SetDisabled(SetDisabled(disabled, LogWidgets, TRUE),
                               {"stop_log_button"}, FALSE)
    /\ csv_file' = CsvName(now, plot_title)
    /\ on_clear_plot_button
    /\ logging' = TRUE
    /\ UNCHANGED <<state_vars, thread_vars, doc_callbacks, status_label,
                   measurement_label, attempt, log_period_ms, plot_period_ms,
                   invert_current, gate_vars, now>>
    /\ sample' = NoSample

\* lines 375-383
on_stop_log_button ==
    /\ disabled' = SetDisabled(SetDisabled(disabled, LogWidgets, FALSE),
                               {"stop_log_button"}, TRUE)
    /\ logging' = FALSE
    /\ UNCHANGED <<state_vars, thread_vars, doc_callbacks, status_label,
                   measurement_label, plot_vars, attempt, log_period_ms,
                   plot_period_ms, invert_current, csv_file, gate_vars, now>>
    /\ sample' = NoSample

\* an event reaches its handler only from a widget the page shows enabled, and
\* an on_change handler only with a value that differs from the old one
ClickStartLog == ~disabled["start_log_button"] /\ on_start_log_button
ClickStopLog == ~disabled["stop_log_button"] /\ on_stop_log_button

ClickClearPlot ==
    /\ ~disabled["clear_plot_button"]
    /\ on_clear_plot_button
    /\ UNCHANGED <<state_vars, thread_vars, doc_callbacks, widget_vars, attempt,
                   config_vars, gate_vars, now, sample>>

EditLogPeriod ==
    /\ ~disabled["log_period_input"]
    /\ \E new \in PeriodInputs \ {log_period_ms} : on_log_period_input(new)

EditPlotPeriod == \E new \in PeriodInputs \ {plot_period_ms} : on_plot_period_input(new)
FlipSignSwitch == ~disabled["invert_sign_switch"] /\ on_invert_sign_switch(~invert_current)

----------------------------------------------------------------------------
(* The connection lifecycle on its own: the user clicks only enabled buttons *)

Next ==
    \/ main_method
    \/ RunCallback
    \/ ClickOpen
    \/ ClickClose
    \/ on_error

Spec == Init /\ [][Next]_vars

\* The threads are scheduled fairly: main_method's loop keeps running and the
\* document keeps running its next-tick callbacks. The user and the device
\* are under no obligation.
FairSpec == Spec /\ WF_vars(main_method) /\ WF_vars(RunCallback)

\* The same with a device that never reports an error through on_error
NextQuiet ==
    \/ main_method
    \/ RunCallback
    \/ ClickOpen
    \/ ClickClose

FairQuietSpec ==
    Init /\ [][NextQuiet]_vars /\ WF_vars(main_method) /\ WF_vars(RunCallback)

\* Open requests that reach on_open_conn_button whatever the page shows (a
\* second click sent before the page has the button disabled). The user stops
\* clicking while MaxBacklog callbacks wait.
MaxBacklog == 4
OpenRequest == Len(doc_callbacks) < MaxBacklog /\ on_open_conn_button

NextReentrant ==
    \/ main_method
    \/ RunCallback
    \/ OpenRequest
    \/ ClickClose
    \/ on_error

SpecReentrant == Init /\ [][NextReentrant]_vars

----------------------------------------------------------------------------
(* Packets, clock and the plot and log widgets, in three environments *)

\* main_method with a device that connects
main_method_connects ==
    \/ main_method_sleep
    \/ main_method_dispatch
    \/ main_method_connect_returns
    \/ main_method_submit
    \/ main_method_read_status
    \/ main_method_start_read
    \/ main_method_run_state

\* The rate gates: one session that is opened and stays open, the user edits
\* the periods and starts and stops logging while packets arrive.
NextGate ==
    \/ main_method_connects
    \/ RunCallback
    \/ ClickOpen
    \/ DeliverPacket
    \/ Tick
    \/ ClickStartLog
    \/ ClickStopLog
    \/ EditLogPeriod
    \/ EditPlotPeriod

SpecGate == Init /\ [][NextGate]_vars

\* The scenario of one processed sample every 100 ms from 0 to 100 * ScenarioTicks ms:
\* the settings are made before the first sample, the clock advances once the
\* sample of the current instant has been processed, and the device delivers
\* no second measurement in the same instant.
BeforeFirstSample == last_plot_time = None
SampledNow == sample.processed /\ sample.t = now

NextScenario ==
    \/ main_method_connects
    \/ RunCallback
    \/ ClickOpen
    \/ BeforeFirstSample /\ EditPlotPeriod
    \/ BeforeFirstSample /\ ClickStartLog
    \/ BeforeFirstSample /\ ClickStopLog
    \/ ~SampledNow /\ DeliverPacket
    \/ SampledNow /\ TickTo(100 * ScenarioTicks)

SpecScenario == Init /\ [][NextScenario]_vars

\* The rolling window: sessions are opened and closed, the plot is cleared,
\* logging is started and stopped and the sign switch is flipped while
\* packets arrive; the periods stay at their defaults.
NextWindow ==
    \/ main_method_connects
    \/ main_method_stop_read
    \/ main_method_disconnect
    \/ main_method_stop_state
    \/ RunCallback
    \/ ClickOpen
    \/ ClickClose
    \/ DeliverPacket
    \/ Tick
    \/ ClickStartLog
    \/ ClickStopLog
    \/ ClickClearPlot
    \/ FlipSignSwitch

SpecWindow == Init /\ [][NextWindow]_vars

\* Sessions that are opened, fail to open, are closed and are ended by the
\* device's error, while packets arrive; every setting stays at its default.
NextSessions ==
    \/ main_method
    \/ RunCallback
    \/ ClickOpen
    \/ ClickClose
    \/ on_error
    \/ DeliverPacket
    \/ Tick

SpecSessions == Init /\ [][NextSessions]_vars

----------------------------------------------------------------------------
(* Connection lifecycle properties *)

AllConnWidgetsEnabled == \A w \in ConnWidgets : ~disabled[w]

C2_ReentrantOpenIgnored ==
    (last_write.by = "on_open_conn_button" /\ last_write.from # STOPPED) =>
        last_write.to = last_write.from

\* C3: main_state is assigned by main_method only (after the module's own
\* initialisation).
C3_SingleWriter == last_write.by \in {"module", "main_method"}

\* the edges of the lifecycle, each with the context that may take it
SpecifiedEdges ==
    { <<"on_open_conn_button",  STOPPED,      INITIALIZING>>,
      <<"main_method",          INITIALIZING, STOPPED>>,
      <<"on_error",             INITIALIZING, STOPPED>>,
      <<"main_method",          INITIALIZING, RUNNING>>,
      <<"on_close_conn_button", RUNNING,      STOPPING>>,
      <<"main_method",          STOPPING,     STOPPED>>,
      <<"on_error",             RUNNING,      STOPPED>>,
      <<"on_error",             STOPPING,     STOPPED>> }

\* C4: every change of main_state is one of the specified edges.
C4_OnlySpecifiedEdges ==
    last_write.from # last_write.to =>
        <<last_write.by, last_write.from, last_write.to>> \in SpecifiedEdges

\* C5: every close request (a click on the enabled close button) is eventually
\* followed by main_state STOPPED with device_select, open_conn_button and
\* invert_sign_switch enabled (or, before that, by the user's next open
\* request, which disables them again).
C5_CloseLeadsToStopped ==
    (last_write.by = "on_close_conn_button") ~>
        \/ main_state = STOPPED /\ AllConnWidgetsEnabled
        \/ last_write.by = "on_open_conn_button"

----------------------------------------------------------------------------
(* Rate gate properties, stated on the last processed sample *)

Gates == {"plot", "log", "meas"}

\* the gates' last_fire after the sample
GateLast == [plot |-> last_plot_time, log |-> last_log_time, meas |-> last_meas_time]

\* the period each gate compared against when the sample was processed
GatePeriodAt == [plot |-> sample.plot_period_ms, log |-> sample.log_period_ms,
                 meas |-> sample.log_period_ms]

\* a gate whose last_fire was set fired iff the gap exceeded the period, and
\* its last_fire became the sample's time if it fired and stayed otherwise
GateObeysRule(g) ==
    sample.before[g] # None =>
        /\ sample.fired[g] <=> (sample.t - sample.before[g][1] > GatePeriodAt[g])
        /\ GateLast[g] = IF sample.fired[g] THEN Some(sample.t) ELSE sample.before[g]
        /\ GateLast[g][1] >= sample.before[g][1]

\* C6 as stated: on every processed sample each of the three gates with a set
\* last_fire fires iff now - last_fire > period (strictly), for the period
\* current at the sample; last_fire becomes now on firing and is unchanged
\* otherwise, so it never decreases.
C6_EveryGateStrict ==
    sample.processed => \A g \in Gates : GateObeysRule(g)

\* C6 amended: the plot gate and the status gate obey the rule on every
\* processed sample; the log gate obeys it on samples processed while logging
\* is active, and never fires nor moves its last_fire while logging is off.
C6_GatesStrictWhileActive ==
    sample.processed =>
        /\ GateObeysRule("plot")
        /\ GateObeysRule("meas")
        /\ IF sample.logging THEN GateObeysRule("log")
           ELSE /\ ~sample.fired.log
                /\ sample.before.log # None => last_log_time = sample.before.log

\* a sample whose gap equals a positive period exactly: the plot gate stays shut
C6_Witness ==
    /\ sample.processed
    /\ sample.before.plot # None
    /\ sample.plot_period_ms > 0
    /\ sample.t - sample.before.plot[1] = sample.plot_period_ms
    /\ ~sample.fired.plot
    /\ last_plot_time = sample.before.plot

\* DateTime of every point plotted or queued for plotting, oldest first
QueuedUpdates == SelectSeq(doc_callbacks, LAMBDA task : task.kind = "update")
PlotTimes ==
    [i \in 1..Len(appended) |-> appended[i].DateTime]
        \o [i \in 1..Len(QueuedUpdates) |-> QueuedUpdates[i].point.DateTime]

C8_StatusGateIgnoresLogPeriod ==
    (sample.processed /\ sample.before.meas # None) =>
        (sample.fired.meas <=> sample.t - sample.before.meas[1] > DefaultLogPeriod)

----------------------------------------------------------------------------
(* Rolling window properties *)

Min(a, b) == IF a < b THEN a ELSE b

\* the last n entries of seq
LastN(seq, n) == SubSeq(seq, Len(seq) - n + 1, Len(seq))

\* C9: the window holds exactly the most recent min(N, MAX_X_POINTS) points
\* appended since the last clear, in append order.
C9_WindowIsMostRecent ==
    LET n == Min(Len(appended), MAX_X_POINTS)
        recent == LastN(appended, n)
    IN \A c \in Columns : data_source[c] = [i \in 1..n |-> recent[i][c]]

\* more points than the window holds were appended since the last clear
C9_Witness ==
    /\ Len(appended) > MAX_X_POINTS
    /\ Len(data_source.DateTime) = MAX_X_POINTS
    /\ data_source.DateTime[1] = appended[Len(appended) - MAX_X_POINTS + 1].DateTime

\* C10: the window is never partial: the five columns have the same length,
\* the entries at one index are the values of one sample, and the window is
\* empty directly after a clear.
C10_WindowNeverPartial ==
    /\ \A c \in Columns : Len(data_source[c]) = Len(data_source.DateTime)
    /\ \A i \in 1..Len(data_source.DateTime) :
          /\ data_source.DateTimeStr[i] = TimeStr(data_source.DateTime[i])
          /\ data_source.power[i] = data_source.voltage[i] * data_source.current[i]
          /\ \E k \in 1..Len(appended) :
                \A c \in Columns : data_source[c][i] = appended[k][c]
    /\ appended = <<>> => data_source = EmptyData

\* a full window after an eviction, holding samples of different instants
C10_Witness ==
    /\ Len(appended) > MAX_X_POINTS
    /\ \A c \in Columns : Len(data_source[c]) = MAX_X_POINTS
    /\ data_source.DateTime[1] # data_source.DateTime[MAX_X_POINTS]

----------------------------------------------------------------------------
(* Sample transform and ingestion properties *)

\* every point submitted to the document and not yet applied
QueuedPoints ==
    [i \in 1..Len(QueuedUpdates) |-> QueuedUpdates[i].point]

\* the entries a step has added at the end of a sequence
Added(old, new) == [i \in 1..(Len(new) - Len(old)) |-> new[Len(old) + i]]

\* the sign policy gives a negative current when it inverts, a positive one
\* otherwise (the device's currents are positive)
SignInForce(current) == (current < 0) <=> invert_current

\* C11: a flip of the sign policy leaves every point already submitted to the
\* document, stored in the window or written to the log as it was; every
\* point and row a step adds carries the current with the sign in force at
\* that step; and every stored power is voltage times the stored current.
C11_FlipAffectsLaterSamplesOnly ==
    [][ /\ invert_current' # invert_current =>
              /\ doc_callbacks' = doc_callbacks
              /\ data_source' = data_source
              /\ csv_rows' = csv_rows
        /\ \A i \in 1..(Len(csv_rows') - Len(csv_rows)) :
              SignInForce(Added(csv_rows, csv_rows')[i].row.current)
        /\ Len(doc_callbacks') > Len(doc_callbacks) =>
              \A i \in 1..(Len(doc_callbacks') - Len(doc_callbacks)) :
                  LET task == Added(doc_callbacks, doc_callbacks')[i] IN
                  task.kind = "update" => SignInForce(task.point.current)
        /\ \A i \in 1..Len(QueuedPoints') :
              QueuedPoints'[i].power = QueuedPoints'[i].voltage * QueuedPoints'[i].current
        /\ \A i \in 1..Len(data_source'.power) :
              data_source'.power[i] = data_source'.voltage[i] * data_source'.current[i]
        /\ \A i \in 1..Len(csv_rows') :
              csv_rows'[i].row.power = csv_rows'[i].row.voltage * csv_rows'[i].row.current
      ]_vars

\* the sign policy was flipped after a point was stored, and the stored point
\* and a written row keep the sign they were transformed with
C11_Witness ==
    /\ ~invert_current
    /\ data_source.current # <<>>
    /\ data_source.current[1] < 0
    /\ csv_rows # <<>>
    /\ csv_rows[1].row.current < 0

\* a step has touched what a processed sample may touch: a gate timestamp,
\* the log, or the document's queue with a plot or status update
IngestionEffect ==
    \/ last_plot_time' # last_plot_time
    \/ last_log_time' # last_log_time
    \/ last_meas_time' # last_meas_time
    \/ csv_rows' # csv_rows
    \/ \E i \in 1..(Len(doc_callbacks') - Len(doc_callbacks)) :
          Added(doc_callbacks, doc_callbacks')[i].kind \in {"update", "meas"}

\* C12: a packet handed to on_packet while main_state is not RUNNING, or whose
\* command is not DAT_RECV, is dropped with no effect: the step initialises or
\* updates no gate timestamp, submits nothing to the document and writes no
\* row; so whatever touches these is a DAT_RECV packet processed in RUNNING.
C12_DroppedPacketHasNoEffect ==
    [][ /\ (sample'.dropped /\ sample' # sample) =>
              /\ main_state # RUNNING \/ sample'.command # "DAT_RECV"
              /\ UNCHANGED <<last_plot_time, last_log_time, last_meas_time,
                             doc_callbacks, csv_rows, data_source, measurement_label>>
        /\ IngestionEffect =>
              /\ main_state = RUNNING
              /\ sample'.processed
              /\ sample'.command = "DAT_RECV"
      ]_vars

\* a measurement packet was dropped while the reader runs and main_state is
\* not RUNNING, the gate timestamps still unset
C12_Witness ==
    /\ sample.dropped
    /\ sample.command = "DAT_RECV"
    /\ meter = "reading"
    /\ main_state # RUNNING
    /\ last_plot_time = None /\ last_log_time = None /\ last_meas_time = None
    /\ csv_rows = <<>>

\* the sample a step has processed was due for the log: logging was active
\* and more than the log period had passed since the log gate's last_fire
LogDue ==
    /\ sample'.logging
    /\ sample'.before.log # None
    /\ sample'.t - sample'.before.log[1] > sample'.log_period_ms

\* C13: a step that processes a DAT_RECV sample appends exactly one row to the
\* csv file if logging is active and the log gate fires, and none otherwise;
\* no other step writes a row. The row carries the sample's time, the signed
\* current, power = voltage * current and the group index recGrp + 1.
C13_OneRowPerLoggedSample ==
    [][ IF sample'.processed /\ sample' # sample /\ LogDue
        THEN /\ Len(csv_rows') = Len(csv_rows) + 1
             /\ SubSeq(csv_rows', 1, Len(csv_rows)) = csv_rows
             /\ LET last == csv_rows'[Len(csv_rows')] IN
                /\ last.file = csv_file
                /\ last.row.DateTime = sample'.t
                /\ last.row.voltage \in Voltages
                /\ SignInForce(last.row.current)
                /\ last.row.power = last.row.voltage * last.row.current
                /\ last.row.recGrp = 1
        ELSE csv_rows' = csv_rows
      ]_vars

\* two samples have been logged, the later one just now
C13_Witness ==
    /\ Len(csv_rows) = 2
    /\ sample.processed /\ sample.logging /\ sample.fired.log
    /\ csv_rows[2].row.DateTime = sample.t
    /\ csv_rows[1].row.DateTime < sample.t

----------------------------------------------------------------------------
(* Log sink properties *)

\* C14: every activation of logging opens a new sink: the file name chosen by
\* on_start_log_button differs from the name chosen by the activation before
\* it (which csv_file still holds), so rows of the new session never go to
\* the file of an earlier session.
C14_EveryActivationNewSink ==
    [][ (~logging /\ logging') => (csv_file = EmptyText \/ csv_file' # csv_file) ]_vars

----------------------------------------------------------------------------
(* Error path and control visibility properties *)

\* C15: once the device has reported an acquisition error, main_method issues
\* no stop_read() and no disconnect() to that handle: it takes no step from
\* line 306 or line 308 while the handle is the failed one.
C15_NoStopCallAfterError ==
    [][ (meter = "failed" /\ pc \in {"stop_read", "disconnect"}) => pc' = pc ]_vars

\* C16: no half-open state is visible: whenever the open button is enabled,
\* main_state is STOPPED.
C16_OpenEnabledOnlyWhenStopped ==
    ~disabled["open_conn_button"] => main_state = STOPPED

\* C17: the close button is enabled only after connect() and start_read() have
\* succeeded for the current attempt: whenever the close button is enabled,
\* main_state is RUNNING.
C17_CloseEnabledOnlyWhenRunning ==
    ~disabled["close_conn_button"] => main_state = RUNNING

----------------------------------------------------------------------------
(* Gate timestamps across sessions *)

\* a step of the connection lifecycle: main_state, main_method's position or
\* the device handle has changed
LifecycleStep == main_state' # main_state \/ pc' # pc \/ meter' # meter

\* C18: the three gate timestamps persist across reconnects: a timestamp once
\* set is never unset nor moved back, no lifecycle step changes any of them,
\* and the only step that changes one is on_packet processing a sample while
\* main_state is RUNNING, which gates the sample against the timestamps it
\* finds, whichever session left them.
C18_GateTimestampsPersist ==
    [][ /\ \A g \in Gates :
              GateLast[g] # None =>
                  GateLast'[g] # None /\ GateLast'[g][1] >= GateLast[g][1]
        /\ LifecycleStep => GateLast' = GateLast
        /\ GateLast' # GateLast =>
              /\ main_state = RUNNING
              /\ sample'.processed
              /\ sample'.before = GateLast
              /\ sample'.before.plot # None =>
                    (sample'.fired.plot <=>
                        sample'.t - GateLast.plot[1] > plot_period_ms)
      ]_vars

\* a session has been closed and disconnected, the user has asked to open
\* again, and the timestamps of the closed session are still there
C18_Witness ==
    /\ meter = "disconnected"
    /\ main_state = INITIALIZING
    /\ last_write.by = "on_open_conn_button"
    /\ last_plot_time # None
    /\ last_log_time # None
    /\ last_meas_time # None
    /\ last_plot_time[1] < now

----------------------------------------------------------------------------
(* Stuck controls and single connection *)

\* the user has an enabled control that matches the state
ControlMatchesState ==
    \/ main_state = STOPPED /\ ~disabled["open_conn_button"]
    \/ main_state = RUNNING /\ ~disabled["close_conn_button"]

\* main_method only sleeps and the document has no callback left to run
AtRest == pc = "loop" /\ main_state \in {STOPPED, RUNNING} /\ doc_callbacks = <<>>

\* C19: the connection controls never get permanently stuck: with main_method
\* and the document scheduled fairly, the system does not come to rest for
\* ever in a state where neither main_state is STOPPED with the open button
\* enabled nor RUNNING with the close button enabled.
C19_ControlsNeverStuck == []<>(ControlMatchesState \/ ~AtRest)

\* C20: at most one device connection is open at a time: main_method executes
\* USBMeter(...)/connect() (lines 277-280) only when the handle it replaces is
\* not a connected one, i.e. was disconnected or has reported an error.
C20_AtMostOneConnection ==
    [][ (pc = "connect" /\ pc' # pc) => ~DeviceLive ]_vars

\* a new connection has just been made after an earlier session that
\* processed samples
C20_Witness ==
    /\ pc = "read_status"
    /\ meter = "connected"
    /\ attempt.outcome = "connected"
    /\ last_plot_time # None

====
